---- MODULE Spec2Model ----
(***************************************************************************)
(* Model of the responsive ngStyle directive (StyleDirective).             *)
(*                                                                         *)
(* A JavaScript string is a sequence of one-character strings, a style     *)
(* map (ngStyleMap) is a function from property names to property values,  *)
(* and a JavaScript value is a record that carries its type.               *)
(* The directive keeps its inputs in _base.inputMap and hands the          *)
(* effective style to NgStyle by assigning this.ngStyle.                   *)
(***************************************************************************)
EXTENDS Integers, Sequences, FiniteSets, TLC

\* ------------------------------------------------------------------------
\* Bounds
\* ------------------------------------------------------------------------

\* longest style string drawn as an input of _buildStyleMap
MaxLen == 5

\* characters a drawn style string is made of
Alphabet == {"a", ":", ";", ",", "'", " "}

\* most tokens in an array or a set drawn as a style input
MaxTokens == 2

\* the tokens a drawn array or set is made of
Tokens == {"a"}

\* ------------------------------------------------------------------------
\* JavaScript values
\* ------------------------------------------------------------------------

EmptyMap == [k \in {} |-> <<>>]

Undefined == [type |-> "undefined", str |-> <<>>, map |-> EmptyMap]

Null == [type |-> "null", str |-> <<>>, map |-> EmptyMap]

Str(s) == [type |-> "string", str |-> s, map |-> EmptyMap]

Obj(m) == [type |-> "object", str |-> <<>>, map |-> m]

\* string[]: the tokens in index order
Arr(tokens) == [type |-> "array", str |-> tokens, map |-> EmptyMap]

\* Set<string>: the tokens in insertion order, each once
SetOf(tokens) == [type |-> "set", str |-> tokens, map |-> EmptyMap]

\* JavaScript truthiness of a value (objects are truthy, '' is falsy)
Truthy(v) ==
  \/ v.type \in {"object", "array", "set"}
  \/ v.type = "string" /\ v.str # <<>>

\* ------------------------------------------------------------------------
\* String primitives used by _buildStyleMap
\* ------------------------------------------------------------------------

\* String.prototype.indexOf for a one-character pattern; 0 when absent
IndexOf(s, c) ==
  IF \E i \in 1..Len(s) : s[i] = c
  THEN CHOOSE i \in 1..Len(s) : s[i] = c /\ \A j \in 1..(i - 1) : s[j] # c
  ELSE 0

\* String.prototype.replace with a STRING pattern: only the first
\* occurrence of the pattern is replaced
Replace(s, c, r) ==
  LET i == IndexOf(s, c)
  IN IF i = 0 THEN s ELSE SubSeq(s, 1, i - 1) \o r \o SubSeq(s, i + 1, Len(s))

\* String.prototype.replace with a global pattern: every occurrence.
\* Not what the directive calls; the reference the separator claim compares to.
RECURSIVE ReplaceAll(_, _, _)
ReplaceAll(s, c, r) ==
  LET i == IndexOf(s, c)
  IN IF i = 0 THEN s
     ELSE SubSeq(s, 1, i - 1) \o r \o ReplaceAll(SubSeq(s, i + 1, Len(s)), c, r)

\* String.prototype.split on a one-character separator
RECURSIVE Split(_, _)
Split(s, c) ==
  LET i == IndexOf(s, c)
  IN IF i = 0 THEN <<s>>
     ELSE <<SubSeq(s, 1, i - 1)>> \o Split(SubSeq(s, i + 1, Len(s)), c)

RECURSIVE TrimLeft(_)
TrimLeft(s) == IF s # <<>> /\ Head(s) = " " THEN TrimLeft(Tail(s)) ELSE s

RECURSIVE TrimRight(_)
TrimRight(s) ==
  IF s # <<>> /\ s[Len(s)] = " " THEN TrimRight(SubSeq(s, 1, Len(s) - 1)) ELSE s

\* String.prototype.trim
Trim(s) == TrimRight(TrimLeft(s))

\* ------------------------------------------------------------------------
\* _buildStyleMap
\* ------------------------------------------------------------------------

\* a callback that keeps a fragment whose value is empty
MapFragment_keepEmpty(it) ==
  LET parts == Split(it, ":")
      key == parts[1]
  IN IF Len(parts) >= 2
     THEN [ok |-> TRUE, key |-> Trim(Replace(key, "'", <<>>)), val |-> Trim(parts[2])]
     ELSE [ok |-> FALSE, key |-> <<>>, val |-> <<>>]

\* the callback of .map(): one fragment to [key, val] or null
\*   let [key, val] = it.split(":");
\*   return val ? [key.replace("'","").trim(), val.trim()] : null;
MapFragment(it) ==
  LET parts == Split(it, ":")
      key == parts[1]
      hasVal == Len(parts) >= 2 /\ parts[2] # <<>>
  IN IF hasVal
     THEN [ok |-> TRUE, key |-> Trim(Replace(key, "'", <<>>)), val |-> Trim(parts[2])]
     ELSE [ok |-> FALSE, key |-> <<>>, val |-> <<>>]

\* .filter(it => it !== null).reduce((map, it) => { map[key] = val }, {})
RECURSIVE Reduce(_, _)
Reduce(map, frags) ==
  IF frags = <<>> THEN map
  ELSE LET e == MapFragment(Head(frags))
           next == IF e.ok
                   THEN [k \in DOMAIN map \cup {e.key} |->
                           IF k = e.key THEN e.val ELSE map[k]]
                   ELSE map
       IN Reduce(next, Tail(frags))

\* the string branch of _buildStyleMap
ParseStyle(value) == Reduce(EmptyMap, Split(Replace(value, ",", <<";">>), ";"))

buildStyleMap(styles) ==
  IF styles.type = "string" THEN Obj(ParseStyle(styles.str)) ELSE styles

\* ------------------------------------------------------------------------
\* Breakpoint registry and viewport monitor (external collaborators)
\* ------------------------------------------------------------------------

\* the registered breakpoints, in registration order (later = more specific)
BreakPoints == <<"GtXs", "Sm">>

Suffixes == {BreakPoints[i] : i \in DOMAIN BreakPoints}

\* the viewport, as the width zone it is in:
\*   0 = below both breakpoints, 1 = in Sm (and so in GtXs), 2 = above Sm
Viewports == 0..2

\* the media query of a breakpoint, evaluated on a viewport
Matches(sfx, v) ==
  CASE sfx = "GtXs" -> v >= 1
    [] sfx = "Sm" -> v = 1
    [] OTHER -> FALSE

\* the suffix a monitor event carries: the most specific matching
\* breakpoint, or "" when no breakpoint matches
ActiveSuffix(v) ==
  LET hits == {i \in DOMAIN BreakPoints : Matches(BreakPoints[i], v)}
  IN IF hits = {} THEN ""
     ELSE BreakPoints[CHOOSE i \in hits : \A j \in hits : j <= i]

\* ------------------------------------------------------------------------
\* Input cache (BaseFxDirectiveAdapter) and activation (ResponsiveActivation)
\* ------------------------------------------------------------------------

BaseKey == "style"

\* the inputMap key of a breakpoint: baseKey + suffix
KeyOf(sfx) ==
  CASE sfx = "GtXs" -> "styleGtXs"
    [] sfx = "Sm" -> "styleSm"
    [] OTHER -> BaseKey

InputKeys == {BaseKey} \cup {KeyOf(sfx) : sfx \in Suffixes}

\* the property name of the array element at position i (1-based here)
IndexKey(i) == <<<<"0", "1", "2", "3", "4", "5", "6", "7", "8", "9">>[i]>>

\* the own enumerable properties of a value: the entries of a map, the
\* indexed elements of an array, none for a Set, null or undefined
OwnEntries(v) ==
  CASE v.type = "object" -> v.map
    [] v.type = "array" ->
         [k \in {IndexKey(i) : i \in 1..Len(v.str)} |->
            <<v.str[CHOOSE i \in 1..Len(v.str) : IndexKey(i) = k]>>]
    [] OTHER -> EmptyMap

\* extendObject({}, a, b): a shallow copy of a overwritten by every key of b;
\* a source that is null or undefined contributes nothing
extendObject(a, b) ==
  LET ma == OwnEntries(a)
      mb == OwnEntries(b)
  IN Obj([k \in DOMAIN ma \cup DOMAIN mb |->
            IF k \in DOMAIN mb THEN mb[k] ELSE ma[k]])

\* BaseFxDirectiveAdapter.cacheInput(key, source, cacheRaw = true):
\* the value is stored under the key as it is
cacheInputRaw(im, key, source) == [im EXCEPT ![key] = source]

\* the intercept, were a base input merged again into every cached
\* breakpoint map
cacheInput_remerge(im, key, source) ==
  LET styles == buildStyleMap(source)
      merged == extendObject(im[BaseKey], styles)
  IN IF key = BaseKey
     THEN [k \in DOMAIN im |->
             IF k = BaseKey THEN merged
             ELSE IF im[k].type = "object" THEN extendObject(merged, im[k])
             ELSE im[k]]
     ELSE cacheInputRaw(im, key, merged)

\* the intercept, were the parsed styles cached without the merge
cacheInput_noMerge(im, key, source) ==
  cacheInputRaw(im, key, extendObject(Undefined, buildStyleMap(source)))

\* the intercept, were the base merged over the parsed styles
cacheInput_baseWins(im, key, source) ==
  cacheInputRaw(im, key, extendObject(buildStyleMap(source), im[BaseKey]))

\* the intercept, were a base input to replace the base map
cacheInput_replaceBase(im, key, source) ==
  LET styles == buildStyleMap(source)
      merged == extendObject(im[BaseKey], styles)
  IN IF key = BaseKey
     THEN cacheInputRaw(im, key, extendObject(Undefined, styles))
     ELSE cacheInputRaw(im, key, merged)

\* the intercept _buildAdapter installs over _base.cacheInput (merge = true)
cacheInput(im, key, source) ==
  LET styles == buildStyleMap(source)
      merged == extendObject(im[BaseKey], styles)
  IN cacheInputRaw(im, key, merged)

\* the activation picks, among the matching breakpoints that have a cached
\* input, the one registered last; the base key when there is none
Resolve(v, im) ==
  LET hits == {i \in DOMAIN BreakPoints :
                 /\ Matches(BreakPoints[i], v)
                 /\ im[KeyOf(BreakPoints[i])].type # "undefined"}
  IN IF hits = {} THEN BaseKey
     ELSE KeyOf(BreakPoints[CHOOSE i \in hits : \A j \in hits : j <= i])

\* ResponsiveActivation.activatedInput: the cached value of the active key,
\* the default value '' when that key has none
activatedInput(im, key) ==
  IF im[key].type # "undefined" THEN im[key] ELSE Str(<<>>)

\* ------------------------------------------------------------------------
\* _updateStyle
\* ------------------------------------------------------------------------

\* _updateStyle, were the activation not consulted
updateStyle_noActivation(value, im, mq, key) ==
  IF Truthy(value) THEN value
  ELSE IF Truthy(im[BaseKey]) THEN im[BaseKey]
  ELSE Str(<<>>)

\* the value _updateStyle(value) assigns to this.ngStyle
\*   let style = value || this._base.queryInput("style") || '';
\*   if (this._base.mqActivation) style = this._base.mqActivation.activatedInput;
updateStyle(value, im, mq, key) ==
  LET style == IF Truthy(value) THEN value
               ELSE IF Truthy(im[BaseKey]) THEN im[BaseKey]
               ELSE Str(<<>>)
  IN IF mq THEN activatedInput(im, key) ELSE style

\* ------------------------------------------------------------------------
\* State
\* ------------------------------------------------------------------------

VARIABLES
  inputMap,           \* _base.inputMap: input key -> cached value
  ngStyle,            \* this.ngStyle: the effective style handed to NgStyle
  mqActivation,       \* _base.mqActivation exists (built by ngOnInit)
  subscribed,         \* the activation holds its monitor subscription
  activatedInputKey,  \* the activation's selected key
  viewport,           \* the viewport the monitor watches
  changes,            \* SimpleChanges: inputs set since the last ngOnChanges
  onChangesRan,       \* the initial ngOnChanges has run
  op,                 \* the operation that ran last
  wrote,              \* that operation assigned this.ngStyle
  repeated,           \* it was a monitor event carrying the suffix of the
                      \* monitor event right before it
  teardowns,          \* how many times ngOnDestroy has run: 0, 1, or 2 for
                      \* twice and more
  supplied,           \* per key: the raw input last set and the base it met
  source,             \* the input of a _buildStyleMap call
  result              \* the value that call returned

vars == <<inputMap, ngStyle, mqActivation, subscribed, activatedInputKey,
          viewport, changes, onChangesRan, op, wrote, repeated, teardowns, supplied,
          source, result>>

directive == <<inputMap, ngStyle, mqActivation, subscribed, activatedInputKey,
               viewport, changes, onChangesRan, op, wrote, repeated, teardowns, supplied>>

\* the values the input setters are called with
StyleInputs ==
  { Str(<<"a", ":", "1">>),
    Obj([k \in {<<"b">>} |-> <<"2">>]) }

\* what getAttribute("style") returns at construction
InlineStyles == {Null, Str(<<"b", ":", "1">>)}

\* the names ngOnChanges looks for in its SimpleChanges
ChangeName(sfx) ==
  CASE sfx = "GtXs" -> "ngStyleGtXs"
    [] sfx = "Sm" -> "ngStyleSm"
    [] OTHER -> "ngStyle"

NoInput == [onto |-> Undefined, input |-> Undefined]

\* the instance is listening: ngOnInit has run and ngOnDestroy has not
Listening == mqActivation /\ teardowns = 0

\* the instance is disposed: ngOnDestroy has run
Disposed == teardowns > 0

\* the input key a setter caches under, by the name the setter leaves in op
SetterKey(name) ==
  CASE name = "styleBase" -> BaseKey
    [] name = "ngStyleGtXs" -> "styleGtXs"
    [] name = "ngStyleSm" -> "styleSm"
    [] OTHER -> ""

Setters == {"styleBase", "ngStyleGtXs", "ngStyleSm"}

\* ------------------------------------------------------------------------
\* constructor
\* ------------------------------------------------------------------------

\* the state after the constructor: the adapter is built and the inline
\* style attribute is cached as the base input
Init ==
  /\ \E inline \in InlineStyles :
       inputMap = cacheInput([k \in InputKeys |-> Undefined], BaseKey, inline)
  /\ ngStyle = Undefined
  /\ mqActivation = FALSE
  /\ subscribed = FALSE
  /\ activatedInputKey = BaseKey
  /\ viewport \in Viewports
  /\ changes = {}
  /\ onChangesRan = FALSE
  /\ op = "constructor"
  /\ wrote = FALSE
  /\ repeated = FALSE
  /\ teardowns = 0
  /\ supplied = [k \in InputKeys |-> NoInput]
  /\ source = Undefined
  /\ result = Undefined

\* ------------------------------------------------------------------------
\* Input setters
\* ------------------------------------------------------------------------

\* set styleBase(val): cache the base input, then assign this.ngStyle
styleBase(val) ==
  /\ inputMap' = cacheInput(inputMap, BaseKey, val)
  /\ ngStyle' = inputMap'[BaseKey]
  /\ wrote' = TRUE
  /\ changes' = changes \cup {"ngStyle"}
  /\ supplied' = [supplied EXCEPT ![BaseKey] = [onto |-> inputMap[BaseKey], input |-> val]]
  /\ op' = "styleBase"
  /\ repeated' = FALSE
  /\ UNCHANGED <<mqActivation, subscribed, activatedInputKey, viewport,
                 onChangesRan, teardowns, source, result>>

\* the setter of one breakpoint input: it caches the input and nothing else
ngStyleBp(sfx, val) ==
  /\ inputMap' = cacheInput(inputMap, KeyOf(sfx), val)
  /\ wrote' = FALSE
  /\ changes' = changes \cup {ChangeName(sfx)}
  /\ supplied' = [supplied EXCEPT ![KeyOf(sfx)] = [onto |-> inputMap[BaseKey], input |-> val]]
  /\ op' = ChangeName(sfx)
  /\ repeated' = FALSE
  /\ UNCHANGED <<ngStyle, mqActivation, subscribed, activatedInputKey, viewport,
                 onChangesRan, teardowns, source, result>>

ngStyleGtXs(val) == ngStyleBp("GtXs", val)

ngStyleSm(val) == ngStyleBp("Sm", val)

\* ------------------------------------------------------------------------
\* Lifecycle hooks
\* ------------------------------------------------------------------------

\* ngOnChanges, were the test "|| this._base.mqActivation" left out
ngOnChanges_changedOnly ==
  /\ changes # {}
  /\ LET changed == \E sfx \in Suffixes : ChangeName(sfx) \in changes
     IN IF changed
        THEN /\ ngStyle' = updateStyle(Undefined, inputMap, mqActivation, activatedInputKey)
             /\ wrote' = TRUE
        ELSE /\ ngStyle' = ngStyle
             /\ wrote' = FALSE
  /\ changes' = {}
  /\ onChangesRan' = TRUE
  /\ op' = "ngOnChanges"
  /\ repeated' = FALSE
  /\ UNCHANGED <<inputMap, mqActivation, subscribed, activatedInputKey, viewport,
                 teardowns, supplied, source, result>>

\* ngOnChanges, were the input of the matching breakpoint passed on to
\* _updateStyle
ngOnChanges_matchingInput ==
  /\ changes # {}
  /\ LET changed == \E sfx \in Suffixes : ChangeName(sfx) \in changes
     IN IF changed \/ mqActivation
        THEN /\ ngStyle' = updateStyle(inputMap[Resolve(viewport, inputMap)], inputMap,
                                       mqActivation, activatedInputKey)
             /\ wrote' = TRUE
        ELSE /\ ngStyle' = ngStyle
             /\ wrote' = FALSE
  /\ changes' = {}
  /\ onChangesRan' = TRUE
  /\ op' = "ngOnChanges"
  /\ repeated' = FALSE
  /\ UNCHANGED <<inputMap, mqActivation, subscribed, activatedInputKey, viewport,
                 teardowns, supplied, source, result>>

\* ngOnChanges(changes): the framework calls it after it has set inputs
ngOnChanges ==
  /\ changes # {}
  /\ LET changed == \E sfx \in Suffixes : ChangeName(sfx) \in changes
     IN IF changed \/ mqActivation
        THEN /\ ngStyle' = updateStyle(Undefined, inputMap, mqActivation, activatedInputKey)
             /\ wrote' = TRUE
        ELSE /\ ngStyle' = ngStyle
             /\ wrote' = FALSE
  /\ changes' = {}
  /\ onChangesRan' = TRUE
  /\ op' = "ngOnChanges"
  /\ repeated' = FALSE
  /\ UNCHANGED <<inputMap, mqActivation, subscribed, activatedInputKey, viewport,
                 teardowns, supplied, source, result>>

\* the callback ngOnInit registers: (changes) => this._updateStyle(changes.value);
\* the activation exists when it is called
onMediaQueryChange(value, im, key) == updateStyle(value, im, TRUE, key)

\* the handler, were the callback called on every event
onMonitorEvents_everyEvent(v) ==
  LET newKey == Resolve(v, inputMap)
  IN /\ activatedInputKey' = newKey
     /\ ngStyle' = onMediaQueryChange(activatedInput(inputMap, newKey), inputMap, newKey)
     /\ wrote' = TRUE

\* the activation's handler of a monitor event for viewport v: it resolves
\* the selection and, when the selection changed, calls the directive's
\* callback, (changes) => this._updateStyle(changes.value)
onMonitorEvents(v) ==
  LET newKey == Resolve(v, inputMap)
  IN IF newKey # activatedInputKey
     THEN /\ activatedInputKey' = newKey
          /\ ngStyle' = onMediaQueryChange(activatedInput(inputMap, newKey), inputMap, newKey)
          /\ wrote' = TRUE
     ELSE /\ UNCHANGED <<activatedInputKey, ngStyle>>
          /\ wrote' = FALSE

\* ngOnInit: after the initial ngOnChanges, build the activation; the
\* monitor delivers the current viewport as the first event
ngOnInit ==
  /\ ~mqActivation
  /\ onChangesRan
  /\ changes = {}
  /\ mqActivation' = TRUE
  /\ subscribed' = TRUE
  /\ onMonitorEvents(viewport)
  /\ op' = "ngOnInit"
  /\ repeated' = FALSE
  /\ UNCHANGED <<inputMap, viewport, changes, onChangesRan, teardowns, supplied,
                 source, result>>

\* BaseFxDirective.ngOnDestroy: the activation releases its subscription
baseNgOnDestroy ==
  /\ subscribed' = FALSE

\* ngOnDestroy, were the call of this._base.ngOnDestroy() left out
ngOnDestroy_noRelease ==
  /\ mqActivation
  /\ teardowns' = IF teardowns = 0 THEN 1 ELSE 2
  /\ wrote' = FALSE
  /\ op' = "ngOnDestroy"
  /\ repeated' = FALSE
  /\ UNCHANGED <<inputMap, ngStyle, mqActivation, subscribed, activatedInputKey,
                 viewport, changes, onChangesRan, supplied, source, result>>

\* ngOnDestroy() { this._base.ngOnDestroy(); }
ngOnDestroy ==
  /\ mqActivation
  /\ baseNgOnDestroy
  /\ teardowns' = IF teardowns = 0 THEN 1 ELSE 2
  /\ wrote' = FALSE
  /\ op' = "ngOnDestroy"
  /\ repeated' = FALSE
  /\ UNCHANGED <<inputMap, ngStyle, mqActivation, activatedInputKey, viewport,
                 changes, onChangesRan, supplied, source, result>>

\* the viewport changes to v and the monitor reports it; the event reaches
\* the activation only while it holds its subscription.  Events are never
\* delivered in the middle of an input-change pass.
onMediaChange(v) ==
  /\ changes = {} \/ ~subscribed
  /\ viewport' = v
  /\ IF subscribed
     THEN onMonitorEvents(v)
     ELSE /\ UNCHANGED <<activatedInputKey, ngStyle>>
          /\ wrote' = FALSE
  /\ op' = "onMediaChange"
  /\ repeated' = (/\ op \in {"ngOnInit", "onMediaChange"}
                  /\ ActiveSuffix(v) = ActiveSuffix(viewport))
  /\ UNCHANGED <<inputMap, mqActivation, subscribed, changes, onChangesRan,
                 teardowns, supplied, source, result>>

Next ==
  \/ \E val \in StyleInputs : styleBase(val)
  \/ \E val \in StyleInputs : ngStyleGtXs(val)
  \/ \E val \in StyleInputs : ngStyleSm(val)
  \/ ngOnChanges
  \/ ngOnInit
  \/ ngOnDestroy
  \/ \E v \in Viewports : onMediaChange(v)

Spec == Init /\ [][Next]_vars

TypeOK ==
  /\ \A k \in InputKeys : inputMap[k].type \in {"undefined", "object"}
  /\ inputMap[BaseKey].type = "object"
  /\ ngStyle.type \in {"undefined", "object"}
  /\ activatedInputKey \in InputKeys

\* ------------------------------------------------------------------------
\* _buildStyleMap on its own: every style string up to MaxLen
\* ------------------------------------------------------------------------

Strings == UNION {[1..n -> Alphabet] : n \in 0..MaxLen}

InitParse ==
  /\ source \in {Str(s) : s \in Strings}
  /\ result = Undefined
  /\ inputMap = cacheInput([k \in InputKeys |-> Undefined], BaseKey, Null)
  /\ ngStyle = Undefined
  /\ mqActivation = FALSE
  /\ subscribed = FALSE
  /\ activatedInputKey = BaseKey
  /\ viewport = 0
  /\ changes = {}
  /\ onChangesRan = FALSE
  /\ op = "constructor"
  /\ wrote = FALSE
  /\ repeated = FALSE
  /\ teardowns = 0
  /\ supplied = [k \in InputKeys |-> NoInput]

\* one call of _buildStyleMap(source)
buildStyleMapCall ==
  /\ result = Undefined
  /\ result' = buildStyleMap(source)
  /\ UNCHANGED <<source, directive>>

NextParse == buildStyleMapCall

SpecParse == InitParse /\ [][NextParse]_vars

\* ------------------------------------------------------------------------
\* The cacheInput intercept on its own: every kind of NgStyleType
\* ------------------------------------------------------------------------

TokenLists == UNION {[1..n -> Tokens] : n \in 0..MaxTokens}

\* the values of type NgStyleType drawn for a call of cacheInput
CacheInputs ==
  {Arr(t) : t \in TokenLists}
    \cup {SetOf(t) : t \in {u \in TokenLists :
                              \A i, j \in 1..Len(u) : u[i] = u[j] => i = j}}
    \cup StyleInputs

InitCache ==
  /\ \E inline \in InlineStyles :
       inputMap = cacheInput([k \in InputKeys |-> Undefined], BaseKey, inline)
  /\ source = Undefined
  /\ result = Undefined
  /\ ngStyle = Undefined
  /\ mqActivation = FALSE
  /\ subscribed = FALSE
  /\ activatedInputKey = BaseKey
  /\ viewport = 0
  /\ changes = {}
  /\ onChangesRan = FALSE
  /\ op = "constructor"
  /\ wrote = FALSE
  /\ repeated = FALSE
  /\ teardowns = 0
  /\ supplied = [k \in InputKeys |-> NoInput]

\* one call this._base.cacheInput(key, val, true) as the setters make it;
\* source is the value passed and result the value the cache then holds
cacheInputCall(key, val) ==
  /\ inputMap' = cacheInput(inputMap, key, val)
  /\ source' = val
  /\ result' = inputMap'[key]
  /\ UNCHANGED <<ngStyle, mqActivation, subscribed, activatedInputKey, viewport,
                 changes, onChangesRan, op, wrote, repeated, teardowns, supplied>>

NextCache == \E key \in InputKeys, val \in CacheInputs : cacheInputCall(key, val)

SpecCache == InitCache /\ [][NextCache]_vars

\* ------------------------------------------------------------------------
\* Claims
\* ------------------------------------------------------------------------

\* C1 (as stated): while the instance is listening, after any sequence of
\* input setters (each pass closed by ngOnChanges) and viewport events, the
\* effective style is the cached map of the most specific matching
\* breakpoint that has a cached input, the base map when there is none.
C1_EffectiveIsResolvedAlways ==
  (Listening /\ changes = {}) => ngStyle = inputMap[Resolve(viewport, inputMap)]

\* C1 (amended): right after the subscription's first event and after every
\* viewport-change event handled while listening, the effective style is the
\* cached map of the most specific matching breakpoint that has a cached
\* input, the base map when there is none.
C1_EffectiveIsResolvedAfterEvent ==
  (Listening /\ op \in {"ngOnInit", "onMediaChange"})
    => /\ activatedInputKey = Resolve(viewport, inputMap)
       /\ ngStyle = inputMap[Resolve(viewport, inputMap)]

\* C1 witness: after an event, Sm and GtXs both match, Sm has no cached
\* input, and the effective style is the GtXs map, which is not the base map
C1_Witness ==
  /\ Listening
  /\ op = "onMediaChange"
  /\ viewport = 1
  /\ inputMap["styleSm"].type = "undefined"
  /\ inputMap["styleGtXs"].type = "object"
  /\ ngStyle = inputMap["styleGtXs"]
  /\ ngStyle # inputMap[BaseKey]

\* C2: a monitor event that carries the same suffix as the monitor event
\* right before it causes no write of this.ngStyle.
C2_NoDuplicateEmission ==
  (mqActivation /\ repeated) => ~wrote

\* C2 witness: while listening with a breakpoint map in effect, the same
\* suffix has just been delivered a second time
C2_Witness ==
  /\ Listening
  /\ repeated
  /\ op = "onMediaChange"
  /\ activatedInputKey = "styleSm"
  /\ ngStyle = inputMap["styleSm"]

\* C3: once ngOnDestroy has run, a monitor event changes neither the
\* effective style nor the selection and writes nothing to the sink, and a
\* further ngOnDestroy changes nothing of the instance.
C3_NoEmissionAfterTeardown ==
  [][ /\ (Disposed /\ op' = "onMediaChange")
         => (ngStyle' = ngStyle /\ activatedInputKey' = activatedInputKey /\ ~wrote')
      /\ (Disposed /\ op' = "ngOnDestroy")
         => UNCHANGED <<inputMap, ngStyle, mqActivation, subscribed,
                        activatedInputKey, changes>> ]_vars

\* C3 witness: ngOnDestroy has run at least twice, and a later monitor event that
\* would have selected another key left the effective style alone
C3_Witness ==
  /\ teardowns = 2
  /\ op = "onMediaChange"
  /\ Resolve(viewport, inputMap) # activatedInputKey
  /\ ngStyle # inputMap[Resolve(viewport, inputMap)]

\* C4: after ngOnDestroy, an input setter or ngOnChanges leaves
\* the input cache and the effective style unchanged.
C4_NoOpAfterTeardown ==
  [][ (Disposed /\ op' \in Setters \cup {"ngOnChanges"})
        => (inputMap' = inputMap /\ ngStyle' = ngStyle) ]_vars

\* C5: the map cached for a breakpoint is the merge of its input onto the
\* base map as it was when the breakpoint's setter ran, and the base setter
\* leaves every cached breakpoint map unchanged.
C5_FirstWriteMerge ==
  [][ /\ op' = "styleBase"
         => \A k \in InputKeys \ {BaseKey} : inputMap'[k] = inputMap[k]
      /\ op' \in Setters \ {"styleBase"}
         => inputMap'[SetterKey(op')] =
              extendObject(inputMap[BaseKey],
                           buildStyleMap(supplied'[SetterKey(op')].input)) ]_vars

\* C5 witness: the base setter has just run, after a breakpoint was cached
\* against an older base, and merging that breakpoint's input onto the new
\* base would give another map than the cached one
C5_Witness ==
  /\ op = "styleBase"
  /\ \E k \in InputKeys \ {BaseKey} :
       /\ supplied[k].input.type # "undefined"
       /\ supplied[k].onto # inputMap[BaseKey]
       /\ inputMap[k] # extendObject(inputMap[BaseKey], buildStyleMap(supplied[k].input))

\* C6 (as stated): whenever a breakpoint that has a cached input is the
\* active selection, the effective style has every property of the base
\* map, with the base value unless the breakpoint's input overrides the key.
C6_EffectiveContainsBase ==
  \A k \in InputKeys \ {BaseKey} :
    (Listening /\ changes = {} /\ activatedInputKey = k
       /\ supplied[k].input.type # "undefined")
    => \A p \in DOMAIN inputMap[BaseKey].map :
         /\ p \in DOMAIN ngStyle.map
         /\ ngStyle.map[p] =
              IF p \in DOMAIN buildStyleMap(supplied[k].input).map
              THEN buildStyleMap(supplied[k].input).map[p]
              ELSE inputMap[BaseKey].map[p]

\* C6 (amended): whenever a breakpoint that has a cached input is the
\* active selection and no input-change pass is in progress, the effective
\* style has every property of the base map as it was when that
\* breakpoint's input was last cached, with that base value unless the
\* breakpoint's input overrides the key.
C6_EffectiveContainsBaseAsCached ==
  \A k \in InputKeys \ {BaseKey} :
    (Listening /\ changes = {} /\ activatedInputKey = k
       /\ supplied[k].input.type # "undefined")
    => \A p \in DOMAIN supplied[k].onto.map :
         /\ p \in DOMAIN ngStyle.map
         /\ ngStyle.map[p] =
              IF p \in DOMAIN buildStyleMap(supplied[k].input).map
              THEN buildStyleMap(supplied[k].input).map[p]
              ELSE supplied[k].onto.map[p]

\* C6 witness: a breakpoint is active whose input overrode one property of
\* the base it met and kept another
C6_Witness ==
  \E k \in InputKeys \ {BaseKey} :
    /\ Listening
    /\ changes = {}
    /\ activatedInputKey = k
    /\ supplied[k].input.type # "undefined"
    /\ ngStyle = inputMap[k]
    /\ \E p, q \in DOMAIN supplied[k].onto.map :
         /\ p \in DOMAIN buildStyleMap(supplied[k].input).map
         /\ ngStyle.map[p] # supplied[k].onto.map[p]
         /\ q \notin DOMAIN buildStyleMap(supplied[k].input).map
         /\ ngStyle.map[q] = supplied[k].onto.map[q]

\* C7: when a setter runs a second time for the same key, no property that
\* only the earlier input of that key supplied (it is not in the later
\* input, and not in the base map the input was merged onto) remains in
\* the cached value of the key.
C7_LaterInputReplacesEarlier ==
  [][ \A name \in Setters :
        (op' = name /\ supplied[SetterKey(name)].input.type # "undefined")
        => \A p \in DOMAIN buildStyleMap(supplied[SetterKey(name)].input).map :
             ( /\ p \notin DOMAIN buildStyleMap(supplied'[SetterKey(name)].input).map
               /\ p \notin DOMAIN (IF name = "styleBase"
                                    THEN supplied[BaseKey].onto.map
                                    ELSE inputMap[BaseKey].map) )
             => p \notin DOMAIN inputMap'[SetterKey(name)].map ]_vars

\* C8: the value a setter caches has exactly the keys of the base map and
\* of the parsed input, the input's value for every key of the input and
\* the base's value for every other key; a breakpoint setter leaves the
\* base map as it was.
C8_MergePrecedence ==
  [][ op' \in Setters
        => LET B == inputMap[BaseKey].map
               P == buildStyleMap(supplied'[SetterKey(op')].input).map
               R == inputMap'[SetterKey(op')].map
           IN /\ DOMAIN R = DOMAIN B \cup DOMAIN P
              /\ \A p \in DOMAIN P : R[p] = P[p]
              /\ \A p \in DOMAIN B \ DOMAIN P : R[p] = B[p]
              /\ op' # "styleBase" => inputMap'[BaseKey] = inputMap[BaseKey] ]_vars

\* C8 witness: a breakpoint setter has just cached an input that overrides
\* one property of the base map with another value and keeps another
C8_Witness ==
  \E name \in Setters \ {"styleBase"} :
    /\ op = name
    /\ \E p, q \in DOMAIN inputMap[BaseKey].map :
         /\ p \in DOMAIN buildStyleMap(supplied[SetterKey(name)].input).map
         /\ inputMap[SetterKey(name)].map[p] # inputMap[BaseKey].map[p]
         /\ q \notin DOMAIN buildStyleMap(supplied[SetterKey(name)].input).map
         /\ inputMap[SetterKey(name)].map[q] = inputMap[BaseKey].map[q]

\* C9: normalizing a style string gives the same map as normalizing the
\* string with every comma replaced by a semicolon.
C9_CommaIsSeparator ==
  result.type = "object"
    => result = buildStyleMap(Str(ReplaceAll(source.str, ",", <<";">>)))

\* C10: every key of the map of a style string has no single quote and no
\* leading or trailing whitespace, and every value has no leading or
\* trailing whitespace.
C10_KeysUnquotedAndTrimmed ==
  result.type = "object"
    => \A k \in DOMAIN result.map :
         /\ \A i \in 1..Len(k) : k[i] # "'"
         /\ k = Trim(k)
         /\ result.map[k] = Trim(result.map[k])

C12_SplitOnFirstColon ==
  (/\ result.type = "object"
   /\ \A i \in 1..Len(source.str) : source.str[i] \notin {";", ",", "'"}
   /\ Cardinality({i \in 1..Len(source.str) : source.str[i] = ":"}) >= 2)
    => LET i == IndexOf(source.str, ":")
           key == Trim(SubSeq(source.str, 1, i - 1))
           val == Trim(SubSeq(source.str, i + 1, Len(source.str)))
       IN result.map = [k \in {key} |-> val]

\* C13: while the instance is listening, at the end of every input-change
\* pass (setters followed by ngOnChanges) the effective style is the map the
\* cache now holds for the activation's selected key: a re-cached input of
\* the active breakpoint is effective, and a base input set in the pass is
\* not left as the effective style while a breakpoint is the selection.
C13_PassRecomputesActive ==
  (Listening /\ op = "ngOnChanges") => ngStyle = inputMap[activatedInputKey]

\* the end of a pass, listening, with a breakpoint selected whose map is
\* effective and differs from the base map, the base having been given an
\* input after that breakpoint's input was cached
C13_Witness ==
  /\ Listening
  /\ op = "ngOnChanges"
  /\ activatedInputKey # BaseKey
  /\ ngStyle = inputMap[activatedInputKey]
  /\ ngStyle # inputMap[BaseKey]
  /\ supplied[BaseKey].input.type # "undefined"
  /\ inputMap[BaseKey] # supplied[activatedInputKey].onto

\* C14: after cacheInput is called with an array or a set, the value the
\* cache holds for that key is an array or a set with the same tokens; after
\* it is called with a map, the cached value has the map's own entries.
C14_KindPreserved ==
  /\ source.type \in {"array", "set"} => result = source
  /\ source.type = "object" =>
       /\ result.type = "object"
       /\ \A k \in DOMAIN source.map :
            k \in DOMAIN result.map /\ result.map[k] = source.map[k]

\* C15 (as stated): before the first subscription (after construction and
\* after every setter and ngOnChanges that runs before ngOnInit) the
\* effective style is the base map, or empty when the base map is empty.
C15_BaseBeforeSubscription ==
  ~mqActivation =>
    \/ ngStyle = inputMap[BaseKey]
    \/ /\ inputMap[BaseKey].map = EmptyMap
       /\ ngStyle \in {Undefined, Str(<<>>)}

\* C15 (amended): before the first subscription the effective style is
\* unset or the base map, never a breakpoint's map that differs from it;
\* it is the base map from the first base input or the end of the first
\* input-change pass on.
C15_UnsetOrBaseBeforeSubscription ==
  ~mqActivation =>
    /\ ngStyle \in {Undefined, inputMap[BaseKey]}
    /\ (onChangesRan \/ supplied[BaseKey] # NoInput) => ngStyle = inputMap[BaseKey]

\* the end of a pass before ngOnInit, with a matching breakpoint whose
\* cached map differs from the base map, and the base map effective
C15_Witness ==
  /\ ~mqActivation
  /\ op = "ngOnChanges"
  /\ wrote
  /\ Resolve(viewport, inputMap) # BaseKey
  /\ inputMap[Resolve(viewport, inputMap)] # inputMap[BaseKey]
  /\ ngStyle = inputMap[BaseKey]

\* C16: the base map only accumulates.  After construction it is the parse
\* of the inline style attribute (the empty map when there is none), and in
\* every step every key of the base map stays in it, with its value unless
\* the step is a base input that supplies the same key.
C16_BaseAccumulates ==
  /\ [](op = "constructor" =>
          \E inline \in InlineStyles :
            inputMap[BaseKey] = IF inline.type = "string"
                                THEN Obj(ParseStyle(inline.str))
                                ELSE Obj(EmptyMap))
  /\ [][\A p \in DOMAIN inputMap[BaseKey].map :
          /\ p \in DOMAIN inputMap'[BaseKey].map
          /\ \/ inputMap'[BaseKey].map[p] = inputMap[BaseKey].map[p]
             \/ /\ op' = "styleBase"
                /\ p \in DOMAIN buildStyleMap(supplied'[BaseKey].input).map]_vars

\* a base input has just been cached and a property the base map had
\* before, which the input does not supply, is still in it with its value
C16_Witness ==
  /\ op = "styleBase"
  /\ \E p \in DOMAIN supplied[BaseKey].onto.map :
       /\ p \notin DOMAIN buildStyleMap(supplied[BaseKey].input).map
       /\ p \in DOMAIN inputMap[BaseKey].map
       /\ inputMap[BaseKey].map[p] = supplied[BaseKey].onto.map[p]
  /\ \E p \in DOMAIN buildStyleMap(supplied[BaseKey].input).map :
       p \notin DOMAIN supplied[BaseKey].onto.map

====
